---- MODULE Spec2Model ----
(***************************************************************************)
(* Weather-App backend: the weather fetcher with its response cache, the   *)
(* geocoder, the Location store (search_locations) and the WeatherRecord   *)
(* store (weather_history), modelled from the sources under src/backend.   *)
(*                                                                         *)
(* The specifications share the module, one per component group:           *)
(*   SpecCache  fetch_current_weather / fetch_forecast and their cache     *)
(*   SpecGeo    geocode_location, get_weather_by_zip and GET /weather      *)
(*   SpecUpstream  the fetchers and geocode_location side by side        *)
(*   SpecInput  detect_input_type on the inputs of the model               *)
(*   SpecKey    _build_cache_key on keyword arguments in every order       *)
(*   SpecLoc    the Location endpoints, two requests at a time             *)
(*   SpecRec    the weather-record endpoints of both routers               *)
(*   SpecQuery  the range queries of crud/weather.py                       *)
(*   SpecRace   deletes of Locations and records, statement by statement   *)
(***************************************************************************)
EXTENDS Integers, Sequences, FiniteSets, TLC

VARIABLES
    cache,      \* weather_service._cache: key -> [timestamp, data]
    now,        \* datetime.utcnow(), in minutes
    task,       \* fetcher coroutines: position and locals of each
    calls,      \* number of fetcher / geocoder calls started so far
    gets,       \* number of upstream HTTP GETs issued so far
    last,       \* the call completed last
    locations,  \* table search_locations: set of rows
    nextLocId,  \* the serial sequence of search_locations.id
    req,        \* Location requests in flight: position and locals of each
    nreq,       \* number of Location requests started so far
    history,    \* table search_history: the queries saved
    records,    \* table weather_history: set of rows
    nextRecId,  \* the serial sequence of weather_history.id
    resp        \* the last response of a weather-record endpoint

cacheVars == <<cache, now, task, calls, gets, last>>
locVars == <<locations, nextLocId>>
searchVars == <<req, nreq, history>>
recVars == <<records, nextRecId, resp>>
vars == <<cache, now, task, calls, gets, last, locations, nextLocId, req, nreq,
          history, records, nextRecId, resp>>

\* Python's None, for the optional string-valued inputs.
NoneV == "<None>"

(***************************************************************************)
(* Bounds of the model.                                                    *)
(***************************************************************************)
MaxCalls == 2       \* fetcher / geocoder calls started in one behaviour
MaxTime == 30       \* the clock stops advancing here
MaxCands == 2       \* candidates in an upstream geocoding answer
MaxReqs == 3        \* requests to the Location and record endpoints
MaxInputLen == 5    \* pieces a user input is made of

(***************************************************************************)
(* services/weather_service.py                                             *)
(***************************************************************************)
TTLCurrent == 10
TTLForecast == 30

Tasks == {"t1", "t2"}
Ops == {"current", "forecast"}

\* The arguments (city, lat, lon) of fetch_current_weather / fetch_forecast.
Args(city, lat, lon) == [city |-> city, lat |-> lat, lon |-> lon]

FetchArgs ==
    { Args(NoneV, NoneV, NoneV),
      Args("", "37.5665", NoneV),
      Args("Seoul", NoneV, NoneV),
      Args("Seol", NoneV, NoneV),
      Args("Seoul", "37.5665", "126.978"),
      Args(NoneV, "37.5665", "126.978") }

KNOWN_CITIES == {"Seoul", "Busan", "New York", "Tokyo"}

\* process.extractOne(query, KNOWN_CITIES): the best match and its score.
\* "Seol" against "Seoul" scores 1 - 1/9 = 88.9 (one insertion over 9 characters).
ExtractOne(query) ==
    CASE query = "Seoul" -> [match |-> "Seoul", score |-> 100]
      [] query = "Seol" -> [match |-> "Seoul", score |-> 88]
      [] OTHER -> [match |-> "Tokyo", score |-> 0]

normalize_city_name(query) ==
    LET r == ExtractOne(query)
    IN  IF r.score > 80 THEN r.match ELSE query

c_to_f(c) == (c * 9) \div 5 + 32

\* Python truthiness of an Optional[str].
Truthy(s) == s # NoneV /\ s # ""

\* sorted(kwargs.items()): the order of the parameter names.
ParamRank(k) ==
    CASE k = "appid" -> 1
      [] k = "lat" -> 2
      [] k = "lon" -> 3
      [] k = "q" -> 4
      [] k = "units" -> 5

\* Mutant of SortedItems: the items are joined in the order they were given.
SortedItems_AsGiven(items) == items

\* One step of the sort: the item (k, v) put in its place among sorted ones.
RECURSIVE InsertItem(_, _)
InsertItem(x, s) ==
    IF s = <<>> THEN <<x>>
    ELSE IF ParamRank(x[1]) < ParamRank(s[1][1]) THEN <<x>> \o s
    ELSE <<s[1]>> \o InsertItem(x, Tail(s))

\* sorted(kwargs.items()), kwargs being the (k, v) items in insertion order.
RECURSIVE SortedItems(_)
SortedItems(items) ==
    IF items = <<>> THEN <<>>
    ELSE LET rest == SortedItems(Tail(items))
         IN  InsertItem(Head(items), rest)

\* prefix + ":" + ":".join(f"{k}={v}" ...): the key as the sequence of its parts.
_build_cache_key(prefix, items) == <<<<prefix, "">>>> \o SortedItems(items)

\* The guard of both fetchers: city or (lat is not None and lon is not None).
ArgsValid(a) == Truthy(a.city) \/ (a.lat # NoneV /\ a.lon # NoneV)

\* The query parameters each fetcher builds, in the order it sets them.
Params(op, a) ==
    <<<<"appid", "KEY">>, <<"units", "metric">>>>
    \o (IF Truthy(a.city)
        THEN <<<<"q", IF op = "current" THEN normalize_city_name(a.city) ELSE a.city>>>>
        ELSE <<<<"lat", a.lat>>, <<"lon", a.lon>>>>)

CacheKey(op, a) == _build_cache_key(op, Params(op, a))

TTL(op) == IF op = "current" THEN TTLCurrent ELSE TTLForecast

\* Mutant of IsHit: the age test made inclusive.
IsHit_Inclusive(c, key, t, ttl) == key \in DOMAIN c /\ t - c[key].timestamp <= ttl

\* cached and utcnow() - cached["timestamp"] < timedelta(minutes=ttl)
IsHit(c, key, t, ttl) == key \in DOMAIN c /\ t - c[key].timestamp < ttl

\* Mutant of CachePut: the result is returned without being stored.
CachePut_Dropped(c, key, t, data) == c

\* Mutant of CachePut: _cache.setdefault, the entry stored first is kept.
CachePut_KeepFirst(c, key, t, data) ==
    [k \in DOMAIN c \cup {key} |->
        IF k \in DOMAIN c THEN c[k] ELSE [timestamp |-> t, data |-> data]]

\* _cache[cache_key] = {"timestamp": utcnow(), "data": result}
CachePut(c, key, t, data) ==
    [k \in DOMAIN c \cup {key} |->
        IF k = key THEN [timestamp |-> t, data |-> data] ELSE c[k]]

\* One upstream entry: main.temp present or not.
ItemPayloads == {[has_temp |-> TRUE, temp |-> 20], [has_temp |-> FALSE, temp |-> 0]}

\* main.get("temp", 0.0)  and  c_to_f(main.get("temp")) or 0.0
Normalize(p) ==
    [temp_c |-> IF p.has_temp THEN p.temp ELSE 0,
     temp_f |-> IF p.has_temp THEN c_to_f(p.temp) ELSE 0]

RECURSIVE SeqsUpTo(_, _)
SeqsUpTo(S, n) ==
    IF n = 0 THEN {<<>>}
    ELSE LET shorter == SeqsUpTo(S, n - 1)
         IN  shorter \cup {Append(s, x) : s \in shorter, x \in S}

\* What fetch_url meets: a JSON body (kind "json": items is the one entry of a
\* current payload, or the "list" of a forecast payload), an empty body
\* (kind "empty": falsy), an error status, or a transport error (status 0).
Bodies(op) ==
    IF op = "current" THEN {<<p>> : p \in ItemPayloads}
    ELSE {<<>>} \cup {<<p>> : p \in ItemPayloads}

Upstream(op) ==
    {[kind |-> "json", status |-> 200, items |-> b] : b \in Bodies(op)}
    \cup {[kind |-> "empty", status |-> 200, items |-> <<>>]}
    \cup {[kind |-> "status", status |-> s, items |-> <<>>] : s \in {404, 500}}
    \cup {[kind |-> "transport", status |-> 0, items |-> <<>>]}

\* The data of a WeatherCurrent / ForecastResponse built from a JSON body.
BuildResult(u) == [i \in 1..Len(u.items) |-> Normalize(u.items[i])]

\* How a call ends: kind "ok" with the data, "none" (return None),
\* "http" (HTTPException with the status), "value_error".
Outcome(kind, status, data) == [kind |-> kind, status |-> status, data |-> data]

\* Mutant of FetchOutcome: the test "if not data: return None" is left out, so
\* a result is built from an empty body too.
FetchOutcome_EmptyBuilt(u) ==
    CASE u.kind = "status" -> Outcome("http", u.status, <<>>)
      [] u.kind = "transport" -> Outcome("http", 502, <<>>)
      [] OTHER -> Outcome("ok", 0, BuildResult(u))

\* fetch_url, lines 98-109, followed by the rest of the fetcher.
FetchOutcome(u) ==
    CASE u.kind = "status" -> Outcome("http", u.status, <<>>)
      [] u.kind = "transport" -> Outcome("http", 502, <<>>)
      [] u.kind = "empty" -> Outcome("none", 0, <<>>)
      [] OTHER -> Outcome("ok", 0, BuildResult(u))

\* NoResp: no response yet. Resp: the last response an endpoint gave its
\* client; fields are the fields the request body set.
Resp(op, status, id, fields) ==
    [op |-> op, status |-> status, id |-> id, fields |-> fields]

NoResp == Resp("none", 0, 0, {})

Idle == [pc |-> "idle", op |-> "current", key |-> <<>>, seen_age |-> -1]

\* The age of the entry a lookup finds under key, -1 when there is none.
SeenAge(c, key, t) == IF key \in DOMAIN c THEN t - c[key].timestamp ELSE -1

\* A completed call: what it was, the age of the cache entry its lookup found
\* (seen_age), when it ended (t1), the upstream GETs it issued, how it ended.
CallRecord(op, key, seen_age, t1, n, out) ==
    [op |-> op, key |-> key, seen_age |-> seen_age, t1 |-> t1, gets |-> n, out |-> out]

\* api/weather.py get_current_weather (83-99) and get_forecast (112-128), called
\* without a zip code: a result is returned; the 404 raised for no result, the
\* HTTPException of fetch_url and the fetcher's ValueError are all caught by
\* "except Exception" and answered as 500.
EndpointStatus(out) == IF out.kind = "ok" THEN 200 ELSE 500

\* GET /current or /forecast calls its fetcher, which reaches its cache lookup:
\* ValueError, a hit, or a miss that goes upstream.
FetchStart(t, op, a) ==
    /\ task[t].pc = "idle"
    /\ calls < MaxCalls
    /\ calls' = calls + 1
    /\ IF ~ArgsValid(a)
       THEN /\ last' = CallRecord(op, <<>>, -1, now, 0, Outcome("value_error", 0, <<>>))
            /\ resp' = Resp(op, EndpointStatus(last'.out), 0, {})
            /\ UNCHANGED <<task, gets>>
       ELSE LET key == CacheKey(op, a)
            IN  IF IsHit(cache, key, now, TTL(op))
                THEN /\ last' = CallRecord(op, key, SeenAge(cache, key, now), now, 0,
                                           Outcome("ok", 0, cache[key].data))
                     /\ resp' = Resp(op, EndpointStatus(last'.out), 0, {})
                     /\ UNCHANGED <<task, gets>>
                ELSE /\ task' = [task EXCEPT ![t] =
                                    [pc |-> "awaiting", op |-> op, key |-> key,
                                     seen_age |-> SeenAge(cache, key, now)]]
                     /\ gets' = gets + 1
                     /\ UNCHANGED <<last, resp>>
    /\ UNCHANGED <<cache, now, locVars, searchVars, records, nextRecId>>

\* await fetch_url(...) returns or raises; the result is built and cached, and
\* the endpoint answers.
FetchReturn(t, u) ==
    /\ task[t].pc = "awaiting"
    /\ u \in Upstream(task[t].op)
    /\ LET out == FetchOutcome(u)
           s == task[t]
       IN  /\ cache' = IF out.kind = "ok" THEN CachePut(cache, s.key, now, out.data)
                       ELSE cache
           /\ last' = CallRecord(s.op, s.key, s.seen_age, now, 1, out)
           /\ resp' = Resp(s.op, EndpointStatus(out), 0, {})
    /\ task' = [task EXCEPT ![t] = Idle]
    /\ UNCHANGED <<now, calls, gets, locVars, searchVars, records, nextRecId>>

Tick(d) ==
    /\ now + d <= MaxTime
    /\ now' = now + d
    /\ UNCHANGED <<cache, task, calls, gets, last, locVars, searchVars, recVars>>

(***************************************************************************)
(* api/search_location.py: geocode_location                                *)
(***************************************************************************)
GeoQueries == {"Seoul", "NoSuchPlace1234"}

\* Candidates of the upstream geocoding answer.
SeoulCand == [name |-> "Seoul", state |-> NoneV, country |-> "KR",
              lat |-> "37.5665", lon |-> "126.978"]
SpringfieldCand == [name |-> "Springfield", state |-> "Illinois", country |-> "US",
                    lat |-> "39.799", lon |-> "-89.644"]

\* What requests.get meets at the geocoding endpoint.
GeoUpstream ==
    {[kind |-> "json", status |-> 200, items |-> l] :
        l \in SeqsUpTo({SeoulCand, SpringfieldCand}, MaxCands)}
    \cup {[kind |-> "status", status |-> s, items |-> <<>>] : s \in {404, 500}}
    \cup {[kind |-> "transport", status |-> 0, items |-> <<>>]}

\* Mutant of GeocodeOutcome: the empty answer is reported as the request failing.
GeocodeOutcome_AllRuntime(u) ==
    IF u.kind \in {"status", "transport"} \/ u.items = <<>>
    THEN Outcome("runtime_error", 0, <<>>)
    ELSE Outcome("ok", 0, <<u.items[1].lat, u.items[1].lon>>)

\* Lines 89-101: RequestException (raise_for_status included) becomes RuntimeError,
\* an empty answer ValueError, otherwise the first candidate's (lat, lon).
GeocodeOutcome(u) ==
    CASE u.kind \in {"status", "transport"} -> Outcome("runtime_error", 0, <<>>)
      [] u.items = <<>> -> Outcome("value_error", 0, <<>>)
      [] OTHER -> Outcome("ok", 0, <<u.items[1].lat, u.items[1].lon>>)

\* Mutant of GeocodeGets: the request is sent once more after it has failed.
GeocodeGets_RetryOnFailure(u) == IF u.kind \in {"status", "transport"} THEN 2 ELSE 1

\* The requests.get calls of geocode_location when the upstream answers u: the
\* one at line 90, outside any loop, whatever the answer.
GeocodeGets(u) == 1

\* geocode_location(location, api_key): one requests.get, no cache involved.
Geocode(location, u) ==
    /\ calls < MaxCalls
    /\ u \in GeoUpstream
    /\ calls' = calls + 1
    /\ gets' = gets + GeocodeGets(u)
    /\ last' = CallRecord("geocode", <<location>>, -1, now, GeocodeGets(u),
                          GeocodeOutcome(u))
    /\ UNCHANGED <<cache, now, task, locVars, searchVars, recVars>>

(***************************************************************************)
(* models/models.py: SearchLocation, and the endpoints that write it:      *)
(* api/search_location.py and validate_or_create_location.                 *)
(***************************************************************************)
Reqs == {"r1", "r2"}

\* The attributes the mapped class SearchLocation has (columns and relationships).
SearchLocationAttrs ==
    {"id", "label", "city", "state", "country", "postal_code", "latitude",
     "longitude", "created_at", "weather_records", "forecast_records"}

\* The declarative constructor SearchLocation(**kwargs) raises TypeError for a
\* keyword that is not an attribute of the class.
ConstructorAccepts(kwargs) == kwargs \subseteq SearchLocationAttrs

\* The keywords search_location passes when it saves a candidate.
SearchKwargs == {"city", "state", "country", "latitude", "longitude", "external_id"}

\* A row of search_locations. label, postal_code and created_at are left out:
\* no row of the model carries a postal_code, so the ilike on it never matches.
LocRow(id, city, state, country, latitude, longitude) ==
    [id |-> id, city |-> city, state |-> state, country |-> country,
     latitude |-> latitude, longitude |-> longitude]

WithId(data, id) ==
    LocRow(id, data.city, data.state, data.country, data.latitude, data.longitude)

\* ix_location_coords: unique (latitude, longitude).
CoordsTaken(rows, row) ==
    \E l \in rows : l.latitude = row.latitude /\ l.longitude = row.longitude

\* ix_location_name: unique (city, state, country). PostgreSQL holds NULLs to be
\* distinct in a unique index: a row whose state is NULL collides with none.
NameTaken(rows, row) ==
    /\ row.state # NoneV
    /\ \E l \in rows : l.city = row.city /\ l.state = row.state /\ l.country = row.country

\* The primary key.
PkTaken(rows, row) == \E l \in rows : l.id = row.id

\* Whether INSERT / UPDATE of row passes the constraints against the other rows.
ConstraintsOk(rows, row) ==
    ~PkTaken(rows, row) /\ ~CoordsTaken(rows, row) /\ ~NameTaken(rows, row)

\* str.lower() of the strings of the model.
Lower(s) ==
    CASE s = "Seoul" -> "seoul"
      [] s = "Seo" -> "seo"
      [] s = "Busan" -> "busan"
      [] s = "Springfield" -> "springfield"
      [] s = "Springfield,US" -> "springfield,us"
      [] s = "Illinois" -> "illinois"
      [] s = "Unknown" -> "unknown"
      [] OTHER -> s

\* The lower-case queries that are substrings of a lower-case value.
SubstringsOf(v) ==
    CASE v = "seoul" -> {"seoul", "seo"}
      [] v = "busan" -> {"busan"}
      [] OTHER -> {v}

\* column.ilike(f"%{query}%"): NULL matches nothing.
ILike(value, query) == value # NoneV /\ Lower(query) \in SubstringsOf(Lower(value))

Queries == {"Seoul", "Seo", "Springfield,US"}

\* The places the upstream geocoder knows for a query.
CandsFor(query) ==
    IF query \in {"Seoul", "Seo"} THEN {SeoulCand} ELSE {SpringfieldCand}

\* The candidate as the row search_location builds from it.
CandData(c) ==
    [city |-> c.name, state |-> c.state, country |-> c.country,
     latitude |-> c.lat, longitude |-> c.lon]

\* The bodies of POST /locations (SearchLocationCreate): Seoul, Seoul again at
\* other coordinates, Busan at Seoul's coordinates, and Springfield at other
\* coordinates than the upstream candidate's.
CreatePayloads ==
    { CandData(SeoulCand),
      [city |-> "Seoul", state |-> NoneV, country |-> "KR",
       latitude |-> "37.5", longitude |-> "127.0"],
      [city |-> "Busan", state |-> NoneV, country |-> "KR",
       latitude |-> "37.5665", longitude |-> "126.978"],
      [city |-> "Springfield", state |-> "Illinois", country |-> "US",
       latitude |-> "39.7817", longitude |-> "-89.6501"] }

\* The bodies of PUT /locations/{id} (SearchLocationUpdate): the fields set.
UpdatePatches ==
    { [f \in {"city"} |-> "Seoul"],
      [f \in {"latitude", "longitude"} |->
          IF f = "latitude" THEN "37.5665" ELSE "126.978"] }

LocIds == {1, 2}

ReqIdle ==
    [pc |-> "idle", op |-> "none", query |-> NoneV, cands |-> <<>>, idx |-> 0,
     data |-> [city |-> NoneV, state |-> NoneV, country |-> NoneV,
              latitude |-> NoneV, longitude |-> NoneV],
     status |-> 0, ids |-> {}, conc |-> FALSE]

InFlight(r) == req[r].pc \notin {"idle", "done"}

\* Request r starts in slot state s; conc records whether another request was
\* in flight at some moment of this one's life.
Started(r, s) ==
    [o \in Reqs |->
        IF o = r THEN [s EXCEPT !.conc = \E q \in Reqs \ {r} : InFlight(q)]
        ELSE IF InFlight(o) THEN [req[o] EXCEPT !.conc = TRUE]
        ELSE req[o]]

\* Request r ends with the status and the ids of the rows it returns.
Finished(r, status, ids) ==
    [req EXCEPT ![r] = [@ EXCEPT !.pc = "done", !.status = status, !.ids = ids]]

\* search_location, lines 275-300: the local query; rows found are returned.
SearchStart(r, query) ==
    /\ ~InFlight(r)
    /\ nreq < MaxReqs
    /\ nreq' = nreq + 1
    /\ LET local == {l \in locations : ILike(l.city, query) \/ ILike(l.state, query)}
           s == [ReqIdle EXCEPT !.op = "search", !.query = query]
       IN  req' = IF local # {}
                  THEN Started(r, [s EXCEPT !.pc = "done", !.status = 200,
                                            !.ids = {l.id : l \in local}])
                  ELSE Started(r, [s EXCEPT !.pc = "upstream"])
    /\ UNCHANGED <<cacheVars, locVars, history, recVars>>

\* Lines 304-311: the upstream answer. RequestException becomes 502; the 404
\* raised for an empty answer is caught by "except Exception" and becomes 500.
SearchUpstream(r, u) ==
    /\ req[r].pc = "upstream"
    /\ u \in GeoUpstream
    /\ \A i \in 1 .. Len(u.items) : u.items[i] \in CandsFor(req[r].query)
    /\ req' = CASE u.kind \in {"status", "transport"} -> Finished(r, 502, {})
                [] u.items = <<>> -> Finished(r, 500, {})
                [] OTHER -> [req EXCEPT ![r] =
                               [@ EXCEPT !.pc = "save", !.cands = u.items, !.idx = 1]]
    /\ UNCHANGED <<cacheVars, locVars, nreq, history, recVars>>

\* Lines 315-342, one turn of the loop: the lookup by coordinates, and for a
\* candidate not found the construction of the row, its INSERT and commit.
SearchSave(r) ==
    /\ req[r].pc = "save"
    /\ LET c == req[r].cands[req[r].idx]
           existing == {l \in locations : l.latitude = c.lat /\ l.longitude = c.lon}
           row == WithId(CandData(c), nextLocId)
           next(ids) == [req EXCEPT ![r] =
                           [@ EXCEPT !.ids = ids, !.idx = @ + 1,
                                     !.pc = IF req[r].idx = Len(req[r].cands)
                                            THEN "history" ELSE "save"]]
       IN  IF existing # {}
           THEN /\ req' = next(req[r].ids \cup {l.id : l \in existing})
                /\ UNCHANGED locVars
           ELSE IF ~ConstructorAccepts(SearchKwargs)
           THEN /\ req' = Finished(r, 500, {})
                /\ UNCHANGED locVars
           ELSE /\ nextLocId' = nextLocId + 1
                /\ IF ConstraintsOk(locations, row)
                   THEN /\ locations' = locations \cup {row}
                        /\ req' = next(req[r].ids \cup {row.id})
                   ELSE /\ req' = Finished(r, 500, {})
                        /\ UNCHANGED locations
    /\ UNCHANGED <<cacheVars, nreq, history, recVars>>

\* Lines 345-362: the search history is saved and the rows are returned.
SearchHistorySave(r) ==
    /\ req[r].pc = "history"
    /\ history' = Append(history, req[r].query)
    /\ req' = Finished(r, 200, req[r].ids)
    /\ UNCHANGED <<cacheVars, locVars, nreq, recVars>>

\* create_location, lines 404-416: the duplicate check by (city, country, state).
CreateCheck(r, data) ==
    /\ ~InFlight(r)
    /\ nreq < MaxReqs
    /\ nreq' = nreq + 1
    /\ LET existing == {l \in locations : l.city = data.city /\ l.country = data.country
                                          /\ l.state = data.state}
           s == [ReqIdle EXCEPT !.op = "create", !.data = data]
       IN  req' = IF existing # {}
                  THEN Started(r, [s EXCEPT !.pc = "done", !.status = 409])
                  ELSE Started(r, [s EXCEPT !.pc = "insert"])
    /\ UNCHANGED <<cacheVars, locVars, history, recVars>>

\* create_location, lines 419-426: INSERT and commit; SQLAlchemyError becomes 500.
CreateInsert(r) ==
    /\ req[r].pc = "insert"
    /\ LET row == WithId(req[r].data, nextLocId)
       IN  /\ nextLocId' = nextLocId + 1
           /\ IF ConstraintsOk(locations, row)
              THEN /\ locations' = locations \cup {row}
                   /\ req' = Finished(r, 200, {row.id})
              ELSE /\ req' = Finished(r, 500, {})
                   /\ UNCHANGED locations
    /\ UNCHANGED <<cacheVars, nreq, history, recVars>>

\* setattr(location, field, value) for the fields of the body.
ApplyPatch(row, patch) ==
    [f \in DOMAIN row |-> IF f \in DOMAIN patch THEN patch[f] ELSE row[f]]

\* update_location, lines 464-489.
UpdateLocation(id, patch) ==
    /\ nreq < MaxReqs
    /\ nreq' = nreq + 1
    /\ LET found == {l \in locations : l.id = id}
       IN  IF found = {}
           THEN /\ resp' = Resp("update_location", 404, id, DOMAIN patch)
                /\ UNCHANGED locations
           ELSE LET old == CHOOSE l \in found : TRUE
                    new == ApplyPatch(old, patch)
                IN  IF ConstraintsOk(locations \ {old}, new)
                    THEN /\ locations' = (locations \ {old}) \cup {new}
                         /\ resp' = Resp("update_location", 200, id, DOMAIN patch)
                    ELSE /\ resp' = Resp("update_location", 500, id, DOMAIN patch)
                         /\ UNCHANGED locations
    /\ UNCHANGED <<cacheVars, nextLocId, req, history, records, nextRecId>>

\* Mutant of WeatherCount: the check for associated records finds none.
WeatherCount_Zero(recs, location_id) == 0

\* db.query(WeatherHistory).filter(WeatherHistory.location_id == location_id).count()
WeatherCount(recs, location_id) ==
    Cardinality({w \in recs : w.location_id = location_id})

\* delete_location, lines 492-527.
DeleteLocation(id) ==
    /\ nreq < MaxReqs
    /\ nreq' = nreq + 1
    /\ LET found == {l \in locations : l.id = id}
           weather_count == WeatherCount(records, id)
       IN  IF found = {}
           THEN /\ resp' = Resp("delete_location", 404, id, {})
                /\ UNCHANGED locations
           ELSE IF weather_count > 0
           THEN /\ resp' = Resp("delete_location", 409, id, {})
                /\ UNCHANGED locations
           ELSE /\ locations' = locations \ found
                /\ resp' = Resp("delete_location", 200, id, {})
    /\ UNCHANGED <<cacheVars, nextLocId, req, history, records, nextRecId>>

\* The row validate_or_create_location builds for an id it does not find.
Placeholder(location_id) ==
    LocRow(location_id, "City " \o ToString(location_id), NoneV, "Unknown", "0.0", "0.0")

\* validate_or_create_location, lines 35-62: the rows after the call, and
\* whether it raised the 400 it makes of an SQLAlchemyError.
ValidateOrCreate(rows, location_id) ==
    IF \E l \in rows : l.id = location_id
    THEN [rows |-> rows, ok |-> TRUE]
    ELSE IF ConstraintsOk(rows, Placeholder(location_id))
    THEN [rows |-> rows \cup {Placeholder(location_id)}, ok |-> TRUE]
    ELSE [rows |-> rows, ok |-> FALSE]

\* get_weather_forecast, lines 474-515, without a date range.
GetWeatherForecast(location_id) ==
    /\ nreq < MaxReqs
    /\ nreq' = nreq + 1
    /\ LET v == ValidateOrCreate(locations, location_id)
       IN  /\ locations' = v.rows
           /\ resp' = Resp("forecast", IF v.ok THEN 200 ELSE 400, location_id, {})
    /\ UNCHANGED <<cacheVars, nextLocId, req, history, records, nextRecId>>

(***************************************************************************)
(* models/models.py: WeatherHistory; schemas/weather.py; crud/weather.py;  *)
(* the record endpoints of api/weather_history.py and api/weather.py.      *)
(***************************************************************************)

\* The fields of WeatherHistoryBase kept by the model: the required ones and
\* two of the optional ones. An optional value is {} for None and {v} for v.
RequiredFields == {"location_id", "weather_date", "temp_c", "temp_f", "condition"}
OptionalFields == {"humidity", "wind_speed"}
RecFields == RequiredFields \cup OptionalFields

\* A weather_date is the number of days it lies after datetime.now() of the
\* request; the endpoints accept dates up to now + timedelta(days=7).
ForecastDays == 7

\* The days of the past the date checks of the module reach back
\* (validate_date_range); create_weather_record has no such check.
PastDays == 365
TooFarAhead(d) == d > ForecastDays

TempMin == -100
TempMax == 100
HumidityMax == 100

\* temp_c and temp_f are floats: the model counts them in tenths of a degree.
\* Deg(d) is d degrees.
Deg(d) == d * 10

\* A request body: the function from the fields it sets to their values.
BasePayload ==
    [f \in RequiredFields |->
        CASE f = "location_id" -> 1
          [] f = "weather_date" -> ForecastDays
          [] f = "temp_c" -> Deg(TempMax)
          [] f = "temp_f" -> Deg(c_to_f(TempMax))
          [] f = "condition" -> "Clear"]

With(p, field, value) ==
    [f \in DOMAIN p \cup {field} |-> IF f = field THEN value ELSE p[f]]

\* The body with humidity and wind_speed set, as in the schema's example.
FullPayload == With(With(BasePayload, "humidity", {65}), "wind_speed", {3})

\* The bodies of the model: temperatures at and one tenth beyond the bounds,
\* dates one day beyond the bounds.
Payloads ==
    { BasePayload,
      With(BasePayload, "temp_c", Deg(TempMax) + 1),
      With(BasePayload, "temp_c", Deg(TempMin) - 1),
      With(BasePayload, "weather_date", ForecastDays + 1),
      With(BasePayload, "humidity", {HumidityMax + 1}),
      With(BasePayload, "wind_speed", {-1}),
      FullPayload,
      With(FullPayload, "temp_c", Deg(TempMin)),
      With(FullPayload, "temp_c", Deg(TempMax) + 1),
      With(FullPayload, "weather_date", -(PastDays + 1)),
      With(With(BasePayload, "location_id", 2), "temp_c", Deg(TempMax) + 1) }

\* data.dict(): every field, the optional ones that were not set as None.
Dict(p) == [f \in RecFields |-> IF f \in DOMAIN p THEN p[f] ELSE {}]

\* Mutant of DictExcludeUnset: the fields that were not set are included as None.
DictExcludeUnset_All(p) == Dict(p)

\* data.dict(exclude_unset=True): the fields the body set.
DictExcludeUnset(p) == p

\* The checks of the weather-history endpoints.
\* Mutant of TempInvalid: the bounds themselves are rejected.
TempInvalid_Exclusive(t) == t <= Deg(TempMin) \/ t >= Deg(TempMax)

TempInvalid(t) == t < Deg(TempMin) \/ t > Deg(TempMax)
HumidityInvalid(h) == \E x \in h : x < 0 \/ x > HumidityMax
WindInvalid(w) == \E x \in w : x < 0

\* WeatherHistory(**d): the row with the id the sequence gives it.
NewRecord(id, d) == [f \in RecFields \cup {"id"} |-> IF f = "id" THEN id ELSE d[f]]

\* setattr(db_weather, key, value) for the items of d.
SetAttrs(w, d) == [f \in DOMAIN w |-> IF f \in DOMAIN d THEN d[f] ELSE w[f]]

\* The foreign key weather_history.location_id -> search_locations.id.
FkOk(rows, w) == \E l \in rows : l.id = w.location_id

\* response_model=WeatherHistoryResponse has humidity: float and
\* wind_speed: float: a row with either one None fails response validation,
\* after the commit, and the caller gets a 500.
ResponseStatus(w) == IF w.humidity = {} \/ w.wind_speed = {} THEN 500 ELSE 200

\* The ids a request can name: those the sequence can have given.
RecIds == 1 .. MaxReqs

\* db.add, db.commit of crud.create_weather_record: the INSERT takes the next
\* value of the sequence and fails on the foreign key. Only the weather-history
\* endpoint validates the row against a response model.
InsertRecord(op, p, validated) ==
    LET w == NewRecord(nextRecId, Dict(p))
    IN  /\ nextRecId' = nextRecId + 1
        /\ IF FkOk(locations, w)
           THEN /\ records' = records \cup {w}
                /\ resp' = Resp(op, IF validated THEN ResponseStatus(w) ELSE 200, w.id,
                                 DOMAIN p)
           ELSE /\ resp' = Resp(op, 500, 0, DOMAIN p)
                /\ UNCHANGED records

\* api/weather_history.py create_weather_record, lines 195-223.
CreateWeatherRecord(p) ==
    /\ nreq < MaxReqs
    /\ nreq' = nreq + 1
    /\ IF \/ TooFarAhead(p.weather_date)
          \/ TempInvalid(p.temp_c)
          \/ HumidityInvalid(Dict(p).humidity)
          \/ WindInvalid(Dict(p).wind_speed)
       THEN /\ resp' = Resp("create_weather_record", 400, 0, DOMAIN p)
            /\ UNCHANGED <<records, nextRecId>>
       ELSE InsertRecord("create_weather_record", p, TRUE)
    /\ UNCHANGED <<cacheVars, locVars, req, history>>

\* api/weather.py store_weather, lines 183-189.
StoreWeather(p) ==
    /\ nreq < MaxReqs
    /\ nreq' = nreq + 1
    /\ InsertRecord("store_weather", p, FALSE)
    /\ UNCHANGED <<cacheVars, locVars, req, history>>

\* crud.update_weather_record, lines 48-63, on the row found.
CrudUpdate(op, old, p, rows) ==
    LET new == SetAttrs(old, DictExcludeUnset(p))
    IN  IF FkOk(rows, new)
        THEN /\ records' = (records \ {old}) \cup {new}
             /\ resp' = Resp(op, ResponseStatus(new), old.id, DOMAIN p)
        ELSE /\ resp' = Resp(op, 500, old.id, DOMAIN p)
             /\ UNCHANGED records

\* api/weather_history.py update_weather_record, lines 395-442.
UpdateWeatherRecord(weather_id, p) ==
    /\ nreq < MaxReqs
    /\ nreq' = nreq + 1
    /\ LET found == {w \in records : w.id = weather_id}
       IN  IF found = {}
           THEN /\ resp' = Resp("update_weather_record", 404, weather_id, DOMAIN p)
                /\ UNCHANGED <<records, locations>>
           ELSE LET old == CHOOSE w \in found : TRUE
                    v == IF p.location_id # 0 /\ p.location_id # old.location_id
                         THEN ValidateOrCreate(locations, p.location_id)
                         ELSE [rows |-> locations, ok |-> TRUE]
                IN  /\ locations' = v.rows
                    /\ IF \/ ~v.ok
                          \/ TooFarAhead(p.weather_date)
                          \/ TempInvalid(p.temp_c)
                       THEN /\ resp' = Resp("update_weather_record", 400, weather_id,
                                            DOMAIN p)
                            /\ UNCHANGED records
                       ELSE CrudUpdate("update_weather_record", old, p, v.rows)
    /\ UNCHANGED <<cacheVars, nextLocId, req, history, nextRecId>>

\* api/weather.py update_weather, lines 222-232: the 404 is raised inside the
\* try and becomes a 500.
UpdateWeather(weather_id, p) ==
    /\ nreq < MaxReqs
    /\ nreq' = nreq + 1
    /\ LET found == {w \in records : w.id = weather_id}
       IN  IF found = {}
           THEN /\ resp' = Resp("update_weather", 500, weather_id, DOMAIN p)
                /\ UNCHANGED records
           ELSE CrudUpdate("update_weather", CHOOSE w \in found : TRUE, p, locations)
    /\ UNCHANGED <<cacheVars, locVars, req, history, nextRecId>>

\* api/weather_history.py delete_weather_record, lines 445-471.
DeleteWeatherRecord(weather_id) ==
    /\ nreq < MaxReqs
    /\ nreq' = nreq + 1
    /\ LET found == {w \in records : w.id = weather_id}
       IN  /\ records' = records \ found
           /\ resp' = Resp("delete_weather_record", IF found = {} THEN 404 ELSE 200,
                           weather_id, {})
    /\ UNCHANGED <<cacheVars, locVars, req, history, nextRecId>>

\* api/weather.py delete_weather, lines 235-240.
DeleteWeather(weather_id) ==
    /\ nreq < MaxReqs
    /\ nreq' = nreq + 1
    /\ LET found == {w \in records : w.id = weather_id}
       IN  /\ records' = records \ found
           /\ resp' = Resp("delete_weather", IF found = {} THEN 404 ELSE 200,
                           weather_id, {})
    /\ UNCHANGED <<cacheVars, locVars, req, history, nextRecId>>


\* api/weather.py get_weather_by_id, lines 214-219: crud.get_weather_by_id gives
\* the row or None; None is answered 404.
GetWeatherById(weather_id) ==
    /\ nreq < MaxReqs
    /\ nreq' = nreq + 1
    /\ LET found == {w \in records : w.id = weather_id}
       IN  resp' = Resp("get_weather_by_id",
                        IF found = {} THEN 404
                        ELSE ResponseStatus(CHOOSE w \in found : TRUE),
                        weather_id, {})
    /\ UNCHANGED <<cacheVars, locVars, req, history, records, nextRecId>>

(***************************************************************************)
(* crud/weather.py: get_weather_by_location and get_forecast.              *)
(***************************************************************************)
\* The records the range queries are made over: Location 1 on three days,
\* Location 2 on the middle one.
QueryPayloads ==
    { With(FullPayload, "weather_date", 3),
      With(FullPayload, "weather_date", 5),
      FullPayload,
      With(With(FullPayload, "location_id", 2), "weather_date", 5) }

\* start_date and end_date: {} for None, {d} for the day d.
DateBounds == {{}, {5}}

\* Mutant of InRange: the end bound is exclusive.
InRange_EndExclusive(d, start_date, end_date) ==
    (\A s \in start_date : d >= s) /\ (\A x \in end_date : d < x)

\* The filters weather_date >= start_date and weather_date <= end_date, each
\* applied when its bound is given.
InRange(d, start_date, end_date) ==
    (\A s \in start_date : d >= s) /\ (\A x \in end_date : d <= x)

\* The rows the query selects.
Selected(recs, location_id, start_date, end_date) ==
    {w \in recs : w.location_id = location_id
                  /\ InRange(w.weather_date, start_date, end_date)}

RECURSIVE Orderings(_)
Orderings(S) ==
    IF S = {} THEN {<<>>}
    ELSE UNION {{<<x>> \o r : r \in Orderings(S \ {x})} : x \in S}

\* order_by(weather_date.desc()) / .asc(): the database may give rows of the
\* same weather_date in any order.
OrderedBy(S, descending) ==
    {s \in Orderings(S) :
        \A i \in 1 .. Len(s) - 1 :
            IF descending THEN s[i].weather_date >= s[i + 1].weather_date
            ELSE s[i].weather_date <= s[i + 1].weather_date}

\* crud.get_weather_by_location, lines 28-45: one of the lists .all() can give.
GetWeatherByLocation(location_id, start_date, end_date) ==
    /\ \E rows \in OrderedBy(Selected(records, location_id, start_date, end_date), TRUE) :
          last' = CallRecord("get_weather_by_location",
                             <<location_id, start_date, end_date>>, -1, now, 0,
                             Outcome("ok", 0, rows))
    /\ UNCHANGED <<cache, now, task, calls, gets, locVars, searchVars, recVars>>

\* crud.get_forecast, lines 79-96.
GetForecast(location_id, start_date, end_date) ==
    /\ \E rows \in OrderedBy(Selected(records, location_id, start_date, end_date), FALSE) :
          last' = CallRecord("get_forecast", <<location_id, start_date, end_date>>,
                             -1, now, 0, Outcome("ok", 0, rows))
    /\ UNCHANGED <<cache, now, task, calls, gets, locVars, searchVars, recVars>>
(***************************************************************************)
(* api/search_location.py: detect_input_type, get_weather_by_zip,          *)
(* get_weather_by_coordinates and the /weather endpoint.                   *)
(***************************************************************************)
\* A user input is the sequence of its characters.
Digits == {"0", "4"}
Spaces == {" ", "\n"}

\* The inputs of the model are made of up to MaxInputLen of these pieces, one
\* after another.
InputPieces ==
    { <<"0", "4", "0", "4">>, <<"4">>, <<"-">>, <<".">>, <<",">>, <<" ">>, <<"\n">>,
      <<"x">> }

RECURSIVE InputsUpTo(_)
InputsUpTo(n) ==
    IF n = 0 THEN {<<>>}
    ELSE LET shorter == InputsUpTo(n - 1)
         IN  shorter \cup {s \o p : s \in shorter, p \in InputPieces}

RECURSIVE LStrip(_)
LStrip(s) == IF s # <<>> /\ Head(s) \in Spaces THEN LStrip(Tail(s)) ELSE s

RECURSIVE RStrip(_)
RStrip(s) ==
    IF s # <<>> /\ s[Len(s)] \in Spaces THEN RStrip(SubSeq(s, 1, Len(s) - 1)) ELSE s

\* Mutant of Strip: the input is matched as it came.
Strip_None(s) == s

\* str.strip()
Strip(s) == RStrip(LStrip(s))

CharAt(s, i, c) == i <= Len(s) /\ s[i] = c

RECURSIVE DigitRun(_, _)
DigitRun(s, i) == IF i <= Len(s) /\ s[i] \in Digits THEN 1 + DigitRun(s, i + 1) ELSE 0

RECURSIVE SpaceRun(_, _)
SpaceRun(s, i) == IF i <= Len(s) /\ s[i] \in Spaces THEN 1 + SpaceRun(s, i + 1) ELSE 0

\* The positions a match of \d+ started at i can end before.
DigitsPlus(s, i) == {i + k : k \in 1 .. DigitRun(s, i)}

\* The same for \s*.
SpacesStar(s, i) == {i + k : k \in 0 .. SpaceRun(s, i)}

\* The same for \d{n}.
DigitsExactly(s, i, n) == IF DigitRun(s, i) >= n THEN {i + n} ELSE {}

\* The same for -?\d+(\.\d+)?
NumberEnds(s, i) ==
    LET starts == {i} \cup (IF CharAt(s, i, "-") THEN {i + 1} ELSE {})
        ints == UNION {DigitsPlus(s, j) : j \in starts}
    IN  ints \cup UNION {IF CharAt(s, j, ".") THEN DigitsPlus(s, j + 1) ELSE {} : j \in ints}

\* $ matches at the end of the string and before a newline that ends it.
AtEnd(s, i) == i = Len(s) + 1 \/ (i = Len(s) /\ s[i] = "\n")

\* re.match(r"^-?\d+(\.\d+)?\s*,\s*-?\d+(\.\d+)?$", s)
LatLonPattern(s) ==
    \E a \in NumberEnds(s, 1) : \E b \in SpacesStar(s, a) :
        /\ CharAt(s, b, ",")
        /\ \E c \in SpacesStar(s, b + 1) : \E d \in NumberEnds(s, c) : AtEnd(s, d)

\* re.match(r"^\d{5}(-\d{4})?$", s)
ZipPattern(s) ==
    \E a \in DigitsExactly(s, 1, 5) :
        \/ AtEnd(s, a)
        \/ CharAt(s, a, "-") /\ \E b \in DigitsExactly(s, a + 1, 4) : AtEnd(s, b)

\* detect_input_type, lines 104-112.
detect_input_type(user_input) ==
    IF LatLonPattern(Strip(user_input)) THEN "latlon"
    ELSE IF ZipPattern(Strip(user_input)) THEN "zip"
    ELSE "city"

\* validate_zip_code, lines 115-126.
validate_zip_code(zip_code) == ZipPattern(Strip(zip_code))

\* parse_coordinates, lines 129-134: the two parts of input.split(","), each
\* as float() reads it (surrounding whitespace dropped).
parse_coordinates(input) ==
    LET k == CHOOSE i \in 1 .. Len(input) : input[i] = ","
    IN  <<Strip(SubSeq(input, 1, k - 1)), Strip(SubSeq(input, k + 1, Len(input)))>>

\* What requests.get meets at the zip endpoint. has404: whether str(e) of the
\* RequestException raised holds the text "404" (its message quotes the URL,
\* the host or the port).
ZipUpstream ==
    {[kind |-> "json", status |-> 200, has404 |-> FALSE]}
    \cup {[kind |-> "status", status |-> s, has404 |-> b] : s \in {404, 500}, b \in BOOLEAN}
    \cup {[kind |-> "transport", status |-> 0, has404 |-> b] : b \in BOOLEAN}

\* get_weather_by_zip, lines 164-208: how the call ends and the GETs it made.
\* The data of an error is its message, up to the colon.
GetWeatherByZipOutcome(zip_code, u) ==
    IF ~validate_zip_code(zip_code)
    THEN [out |-> Outcome("value_error", 0, <<"is not valid">>), gets |-> 0]
    ELSE [out |-> CASE u.kind = "status" /\ u.status = 404 ->
                         Outcome("value_error", 0, <<"is not valid">>)
                    [] u.kind \in {"status", "transport"} /\ u.has404 ->
                         Outcome("value_error", 0, <<"is not valid">>)
                    [] u.kind \in {"status", "transport"} ->
                         Outcome("runtime_error", 0, <<"Geocoding API request failed">>)
                    [] OTHER -> Outcome("ok", 0, <<"40.75", "-73.99">>),
          gets |-> 1]

\* What requests.get meets at the weather endpoint of the upstream.
CoordUpstream ==
    {[kind |-> "json", status |-> 200], [kind |-> "status", status |-> 500],
     [kind |-> "transport", status |-> 0]}

\* get_weather_by_coordinates, lines 137-161.
GetWeatherByCoordinatesOutcome(coords, u) ==
    IF u.kind = "json" THEN Outcome("ok", 0, coords)
    ELSE Outcome("runtime_error", 0, <<"Weather API request failed (latlon)">>)

\* The inputs of GET /weather in the model: a city, a zip code, coordinates.
WeatherInputs ==
    { <<"S", "e", "o", "u", "l">>,
      <<"0", "4", "0", "4", "0">>,
      <<"4", ".", "0", ",", "-", "4">> }

\* The arguments of get_weather_by_zip in the model: the zip code and a bad one.
ZipArgs == { <<"0", "4", "0", "4", "0">>, <<"4", "0", "4">> }

\* resolve_input_and_fetch_weather, lines 211-235: the coordinates the first
\* step finds (or the error it raises), then the weather at them.
ResolveOutcome(user_input, u1, uw) ==
    LET t == detect_input_type(user_input)
        first == CASE t = "latlon" ->
                        [out |-> Outcome("ok", 0, parse_coordinates(user_input)),
                         gets |-> 0]
                   [] t = "zip" -> GetWeatherByZipOutcome(user_input, u1)
                   [] OTHER -> [out |-> GeocodeOutcome(u1), gets |-> GeocodeGets(u1)]
    IN  IF first.out.kind = "ok"
        THEN [out |-> GetWeatherByCoordinatesOutcome(first.out.data, uw),
              gets |-> first.gets + 1]
        ELSE first

\* weather, lines 238-258: ValueError becomes 400 and RuntimeError 502.
WeatherStatus(out) ==
    CASE out.kind = "ok" -> 200
      [] out.kind = "value_error" -> 400
      [] out.kind = "runtime_error" -> 502

\* The answers the first step of an input can meet: the geocoder's for a
\* city, the zip endpoint's for a zip code, none for coordinates.
FirstUpstream(user_input) ==
    CASE detect_input_type(user_input) = "city" -> GeoUpstream
      [] detect_input_type(user_input) = "zip" -> ZipUpstream
      [] OTHER -> {[kind |-> "none", status |-> 0]}

\* GET /weather?user_input=...
Weather(user_input, u1, uw) ==
    /\ calls < MaxCalls
    /\ u1 \in FirstUpstream(user_input)
    /\ uw \in CoordUpstream
    /\ calls' = calls + 1
    /\ LET r == ResolveOutcome(user_input, u1, uw)
       IN  /\ gets' = gets + r.gets
           /\ last' = CallRecord("weather", user_input, -1, now, r.gets, r.out)
           /\ resp' = Resp("weather", WeatherStatus(r.out), 0, {})
    /\ UNCHANGED <<cache, now, task, locVars, searchVars, records, nextRecId>>

\* get_weather_by_zip(zip_code, api_key), called on its own.
GetWeatherByZip(zip_code, u) ==
    /\ calls < MaxCalls
    /\ u \in ZipUpstream
    /\ calls' = calls + 1
    /\ LET r == GetWeatherByZipOutcome(zip_code, u)
       IN  /\ gets' = gets + r.gets
           /\ last' = CallRecord("get_weather_by_zip", zip_code, -1, now, r.gets, r.out)
    /\ UNCHANGED <<cache, now, task, locVars, searchVars, recVars>>

\* A call of detect_input_type that has its argument and has not run yet.
Pending(user_input) ==
    CallRecord("pending", user_input, -1, 0, 0, Outcome("none", 0, <<>>))

\* detect_input_type(user_input) runs and returns.
DetectInputType ==
    /\ last.op = "pending"
    /\ last' = CallRecord("detect_input_type", last.key, -1, now, 0,
                          Outcome("ok", 0, <<detect_input_type(last.key)>>))
    /\ UNCHANGED <<cache, now, task, calls, gets, locVars, searchVars, recVars>>

(***************************************************************************)
(* services/weather_service.py: _build_cache_key called on its own.        *)
(***************************************************************************)
\* The orders the items of a dict can have been inserted in.
RECURSIVE InsertionOrders(_)
InsertionOrders(s) ==
    IF s = <<>> THEN {<<>>}
    ELSE LET without(i) == SubSeq(s, 1, i - 1) \o SubSeq(s, i + 1, Len(s))
         IN  UNION {{<<s[i]>> \o p : p \in InsertionOrders(without(i))} : i \in 1 .. Len(s)}

\* The keyword arguments of the model: those the fetchers build for their
\* valid arguments, in every insertion order.
KeyKwargs ==
    UNION {InsertionOrders(Params(op, a)) : op \in Ops, a \in {b \in FetchArgs : ArgsValid(b)}}

\* A call that has its arguments and has not run yet: the prefix, then the
\* items in insertion order.
PendingKey(prefix, items) ==
    CallRecord("pending_key", <<<<prefix, "">>>> \o items, -1, 0, 0,
               Outcome("none", 0, <<>>))

\* _build_cache_key(prefix, **kwargs) runs and returns.
BuildCacheKey ==
    /\ last.op = "pending_key"
    /\ last' = CallRecord("_build_cache_key", last.key, -1, now, 0,
                          Outcome("ok", 0, _build_cache_key(last.key[1][1],
                                                            Tail(last.key))))
    /\ UNCHANGED <<cache, now, task, calls, gets, locVars, searchVars, recVars>>

(***************************************************************************)
(* delete_location and delete_weather_record statement by statement: each  *)
(* request has its own session (core/database.py get_db) and every         *)
(* statement sees what is committed when it runs.                          *)
(***************************************************************************)
\* delete_location, lines 497-520: the Location is looked up and the weather
\* records that name it are counted.
DeleteLocationCheck(r, location_id) ==
    /\ ~InFlight(r)
    /\ nreq < MaxReqs
    /\ nreq' = nreq + 1
    /\ LET s == [ReqIdle EXCEPT !.op = "delete_location", !.ids = {location_id}]
       IN  req' = IF ~\E l \in locations : l.id = location_id
                  THEN Started(r, [s EXCEPT !.pc = "done", !.status = 404])
                  ELSE IF WeatherCount(records, location_id) > 0
                  THEN Started(r, [s EXCEPT !.pc = "done", !.status = 409])
                  ELSE Started(r, [s EXCEPT !.pc = "flush"])
    /\ UNCHANGED <<cacheVars, locVars, history, recVars>>

\* Lines 522-523, db.delete(location) and the flush of db.commit(): the
\* relationship weather_records has no delete cascade and no passive_deletes,
\* so the session loads the records of the Location to set their location_id
\* to NULL; the column is NOT NULL, the UPDATE fails and the SQLAlchemyError
\* is answered 500 after a rollback.
DeleteLocationFlush(r) ==
    /\ req[r].op = "delete_location"
    /\ req[r].pc = "flush"
    /\ req' = IF \E w \in records : w.location_id \in req[r].ids
              THEN Finished(r, 500, req[r].ids)
              ELSE [req EXCEPT ![r].pc = "delete"]
    /\ UNCHANGED <<cacheVars, locVars, nreq, history, recVars>>

\* DELETE FROM search_locations and COMMIT: the foreign key of
\* weather_history.location_id is ON DELETE CASCADE (models/models.py 59-64),
\* the records that name the row go with it.
DeleteLocationRow(r) ==
    /\ req[r].op = "delete_location"
    /\ req[r].pc = "delete"
    /\ locations' = {l \in locations : l.id \notin req[r].ids}
    /\ records' = {w \in records : w.location_id \notin req[r].ids}
    /\ req' = Finished(r, 200, req[r].ids)
    /\ UNCHANGED <<cacheVars, nextLocId, nreq, history, nextRecId, resp>>

\* api/weather_history.py delete_weather_record, lines 451-456: the endpoint
\* looks the record up and answers 404 when there is none.
DeleteRecordCheck(r, weather_id) ==
    /\ ~InFlight(r)
    /\ nreq < MaxReqs
    /\ nreq' = nreq + 1
    /\ LET s == [ReqIdle EXCEPT !.op = "delete_weather_record", !.ids = {weather_id}]
       IN  req' = IF ~\E w \in records : w.id = weather_id
                  THEN Started(r, [s EXCEPT !.pc = "done", !.status = 404])
                  ELSE Started(r, [s EXCEPT !.pc = "crud_get"])
    /\ UNCHANGED <<cacheVars, locVars, history, recVars>>

\* crud.delete_weather_record, lines 70-72: the record is looked up again; when
\* it is gone the function returns False and the endpoint answers 500
\* (lines 458-462).
DeleteRecordGet(r) ==
    /\ req[r].op = "delete_weather_record"
    /\ req[r].pc = "crud_get"
    /\ req' = IF ~\E w \in records : w.id \in req[r].ids
              THEN Finished(r, 500, req[r].ids)
              ELSE [req EXCEPT ![r].pc = "delete"]
    /\ UNCHANGED <<cacheVars, locVars, nreq, history, recVars>>

\* crud.delete_weather_record, lines 74-76: DELETE and COMMIT. stale is the
\* answer to a DELETE that matches no row any more: the session warns that it
\* expected to delete one row and the commit goes through (200), or, where the
\* mismatch is raised as StaleDataError, the SQLAlchemyError is answered 500.
DeleteRecordRow(r, stale) ==
    /\ req[r].op = "delete_weather_record"
    /\ req[r].pc = "delete"
    /\ stale \in {200, 500}
    /\ records' = {w \in records : w.id \notin req[r].ids}
    /\ req' = IF \E w \in records : w.id \in req[r].ids
              THEN Finished(r, 200, req[r].ids)
              ELSE Finished(r, stale, req[r].ids)
    /\ UNCHANGED <<cacheVars, locVars, nreq, history, nextRecId, resp>>
(***************************************************************************)
(* Initial states and specifications.                                      *)
(***************************************************************************)
QuietCache ==
    /\ cache = <<>>
    /\ now = 0
    /\ task = [t \in Tasks |-> Idle]
    /\ calls = 0
    /\ gets = 0
    /\ last = CallRecord("none", <<>>, -1, 0, 0, Outcome("none", 0, <<>>))

NoRequests ==
    /\ req = [r \in Reqs |-> ReqIdle]
    /\ nreq = 0
    /\ history = <<>>
    /\ resp = NoResp

\* The process has just started on empty tables.
Init ==
    /\ QuietCache
    /\ NoRequests
    /\ locations = {}
    /\ nextLocId = 1
    /\ records = {}
    /\ nextRecId = 1

NextCache ==
    \/ \E t \in Tasks, op \in Ops, a \in FetchArgs : FetchStart(t, op, a)
    \/ \E t \in Tasks, u \in Upstream("current") \cup Upstream("forecast") :
          FetchReturn(t, u)
    \/ \E d \in {TTLCurrent} : Tick(d)

SpecCache == Init /\ [][NextCache]_vars

\* The geocoder and its callers: they share nothing with the fetchers but the clock.
NextGeo ==
    \/ \E location \in GeoQueries, u \in GeoUpstream : Geocode(location, u)
    \/ \E user_input \in WeatherInputs, uw \in CoordUpstream :
          \E u1 \in FirstUpstream(user_input) : Weather(user_input, u1, uw)
    \/ \E zip_code \in ZipArgs, u \in ZipUpstream : GetWeatherByZip(zip_code, u)
    \/ \E d \in {TTLCurrent} : Tick(d)

SpecGeo == Init /\ [][NextGeo]_vars

\* Every operation that calls the upstream on its own: the two fetchers and
\* the geocoder, in one process.
NextUpstream ==
    \/ \E t \in Tasks, op \in Ops, a \in FetchArgs : FetchStart(t, op, a)
    \/ \E t \in Tasks, u \in Upstream("current") \cup Upstream("forecast") :
          FetchReturn(t, u)
    \/ \E location \in GeoQueries, u \in GeoUpstream : Geocode(location, u)
    \/ \E d \in {TTLCurrent} : Tick(d)

SpecUpstream == Init /\ [][NextUpstream]_vars

\* detect_input_type is about to be called with one of the inputs.
InitInput ==
    /\ cache = <<>>
    /\ now = 0
    /\ task = [t \in Tasks |-> Idle]
    /\ calls = 0
    /\ gets = 0
    /\ last \in {Pending(user_input) : user_input \in InputsUpTo(MaxInputLen)}
    /\ NoRequests
    /\ locations = {}
    /\ nextLocId = 1
    /\ records = {}
    /\ nextRecId = 1

SpecInput == InitInput /\ [][DetectInputType]_vars

\* _build_cache_key is about to be called with one of the prefixes and one
\* of the keyword-argument lists.
InitKey ==
    /\ cache = <<>>
    /\ now = 0
    /\ task = [t \in Tasks |-> Idle]
    /\ calls = 0
    /\ gets = 0
    /\ last \in {PendingKey(prefix, items) : prefix \in Ops, items \in KeyKwargs}
    /\ NoRequests
    /\ locations = {}
    /\ nextLocId = 1
    /\ records = {}
    /\ nextRecId = 1

SpecKey == InitKey /\ [][BuildCacheKey]_vars

NextLoc ==
    \/ \E r \in Reqs, query \in Queries : SearchStart(r, query)
    \/ \E r \in Reqs, u \in GeoUpstream : SearchUpstream(r, u)
    \/ \E r \in Reqs : SearchSave(r)
    \/ \E r \in Reqs : SearchHistorySave(r)
    \/ \E r \in Reqs, data \in CreatePayloads : CreateCheck(r, data)
    \/ \E r \in Reqs : CreateInsert(r)
    \/ \E id \in LocIds, patch \in UpdatePatches : UpdateLocation(id, patch)
    \/ \E id \in LocIds : DeleteLocation(id)
    \/ \E id \in RecIds : GetWeatherById(id)
    \/ \E id \in LocIds : GetWeatherForecast(id)

SpecLoc == Init /\ [][NextLoc]_vars

\* The record endpoints start on a store that holds one Location, as
\* POST /locations leaves it, and no record.
InitRec ==
    /\ QuietCache
    /\ NoRequests
    /\ locations = {WithId(CandData(SeoulCand), 1)}
    /\ nextLocId = 2
    /\ records = {}
    /\ nextRecId = 1

NextRec ==
    \/ \E p \in Payloads : CreateWeatherRecord(p)
    \/ \E p \in Payloads : StoreWeather(p)
    \/ \E id \in RecIds, p \in Payloads : UpdateWeatherRecord(id, p)
    \/ \E id \in RecIds, p \in Payloads : UpdateWeather(id, p)
    \/ \E id \in RecIds : DeleteWeatherRecord(id)
    \/ \E id \in RecIds : DeleteWeather(id)
    \/ \E id \in LocIds : DeleteLocation(id)
    \/ \E id \in RecIds : GetWeatherById(id)

SpecRec == InitRec /\ [][NextRec]_vars


\* The range queries run on a store that holds two Locations, as two
\* POST /locations leave it, and the records POST /api/weather adds.
InitQuery ==
    /\ QuietCache
    /\ NoRequests
    /\ locations = {WithId(CandData(SeoulCand), 1), WithId(CandData(SpringfieldCand), 2)}
    /\ nextLocId = 3
    /\ records = {}
    /\ nextRecId = 1

NextQuery ==
    \/ \E p \in QueryPayloads : StoreWeather(p)
    \/ \E id \in RecIds : DeleteWeather(id)
    \/ \E location_id \in LocIds, start_date \in DateBounds, end_date \in DateBounds :
          GetWeatherByLocation(location_id, start_date, end_date)
    \/ \E location_id \in LocIds, start_date \in DateBounds, end_date \in DateBounds :
          GetForecast(location_id, start_date, end_date)

SpecQuery == InitQuery /\ [][NextQuery]_vars

\* Deletes of Locations and of records, statement by statement, beside
\* requests that create and move records; the store starts as in InitQuery.
NextRace ==
    \/ \E p \in QueryPayloads : CreateWeatherRecord(p)
    \/ \E id \in RecIds, p \in QueryPayloads : UpdateWeather(id, p)
    \/ \E r \in Reqs, location_id \in LocIds : DeleteLocationCheck(r, location_id)
    \/ \E r \in Reqs : DeleteLocationFlush(r)
    \/ \E r \in Reqs : DeleteLocationRow(r)
    \/ \E r \in Reqs, weather_id \in RecIds : DeleteRecordCheck(r, weather_id)
    \/ \E r \in Reqs : DeleteRecordGet(r)
    \/ \E r \in Reqs, stale \in {200, 500} : DeleteRecordRow(r, stale)

SpecRace == InitQuery /\ [][NextRace]_vars
(***************************************************************************)
(* Claims about the fetcher and its cache (SpecCache).                      *)
(***************************************************************************)

\* C1: when a fetch_current_weather call that went upstream has completed with a
\* result, the next call with the same normalized parameters, made less than 10
\* minutes after that result was cached, issues no upstream GET and returns the
\* same result: the two calls together make exactly one upstream GET.
C1_SecondCallServedFromCache ==
    [][\A t \in Tasks, a \in FetchArgs :
          ( /\ last.op = "current" /\ last.gets = 1 /\ last.out.kind = "ok"
            /\ ArgsValid(a)
            /\ CacheKey("current", a) = last.key
            /\ now - last.t1 < TTLCurrent
            /\ FetchStart(t, "current", a) )
          => ( /\ gets' = gets
               /\ last'.op = "current" /\ last'.key = last.key
               /\ last'.gets = 0
               /\ last'.out = last.out )]_vars

\* Two calls were made, one upstream GET was issued, the second call was a hit.
C1_Witness ==
    /\ calls = 2 /\ gets = 1
    /\ last.op = "current" /\ last.gets = 0 /\ last.out.kind = "ok"

\* C2: a lookup is a hit exactly when an entry is stored under the key and its
\* age is strictly below the TTL of the key's class (10 minutes current, 30
\* forecast): a hit returns the stored data and issues no GET; an entry of age
\* at or beyond its TTL stays stored while the call goes upstream, and a
\* successful fetch leaves under the key the new value stamped with the time
\* of the put.
C2_HitOnlyWhenFresh ==
    LET ttl(op) == IF op = "current" THEN TTLCurrent ELSE TTLForecast
        fresh(op, age) == age >= 0 /\ age < ttl(op)
    IN  /\ (last.op \in Ops /\ last.out.kind # "value_error") =>
              /\ (last.gets = 0) <=> fresh(last.op, last.seen_age)
              /\ (last.gets = 0) =>
                    /\ last.out.kind = "ok"
                    /\ last.key \in DOMAIN cache
                    /\ cache[last.key].data = last.out.data
                    /\ cache[last.key].timestamp = last.t1 - last.seen_age
              /\ (last.gets = 1 /\ last.out.kind = "ok") =>
                    /\ last.key \in DOMAIN cache
                    /\ cache[last.key] = [timestamp |-> last.t1, data |-> last.out.data]
        /\ \A t \in Tasks :
              task[t].pc = "awaiting" =>
                 /\ ~fresh(task[t].op, task[t].seen_age)
                 /\ task[t].seen_age >= 0 => task[t].key \in DOMAIN cache

\* A call found an entry of age >= TTL, went upstream and overwrote it.
C2_Witness ==
    /\ last.gets = 1 /\ last.out.kind = "ok"
    /\ last.op \in Ops
    /\ last.seen_age >= TTL(last.op)
    /\ cache[last.key] = [timestamp |-> last.t1, data |-> last.out.data]

(***************************************************************************)
(* Claims about the Location store (SpecLoc).                              *)
(***************************************************************************)
SeoulCoordRows ==
    {l \in locations : l.latitude = SeoulCand.lat /\ l.longitude = SeoulCand.lon}

\* Both slots hold a finished search that went through the find-or-create step
\* for the one candidate Seoul, and no other request was made.
TwoSeoulSearches(concurrent) ==
    /\ nreq = 2
    /\ \A r \in Reqs : /\ req[r].pc = "done"
                       /\ req[r].op = "search"
                       /\ req[r].cands = <<SeoulCand>>
                       /\ req[r].conc = concurrent

\* C3: when two concurrent requests have run the find-or-create step for the
\* place (37.5665, 126.978, "Seoul", None, "KR"), the store holds exactly one row
\* with city "Seoul" and exactly one row with that coordinate pair.
C3_ConcurrentFindOrCreateOneRow ==
    TwoSeoulSearches(TRUE) =>
        /\ Cardinality({l \in locations : l.city = "Seoul"}) = 1
        /\ Cardinality(SeoulCoordRows) = 1

\* C4: when the find-or-create step has run twice in sequence for the same
\* (lat, lon), both runs returned the same Location id and the store holds
\* exactly one row with that coordinate pair.
C4_SequentialFindOrCreateSameId ==
    TwoSeoulSearches(FALSE) =>
        /\ \A r \in Reqs : req[r].status = 200 /\ Cardinality(req[r].ids) = 1
        /\ \A r1, r2 \in Reqs : req[r1].ids = req[r2].ids
        /\ Cardinality(SeoulCoordRows) = 1

\* The rows that stand in the way of inserting row under the unique indexes.
Conflicting(row) ==
    {l \in locations :
        \/ l.latitude = row.latitude /\ l.longitude = row.longitude
        \/ row.state # NoneV /\ l.city = row.city /\ l.state = row.state
                             /\ l.country = row.country}

\* C5: when the find-or-create step of a search has to insert a Location that
\* a unique index (coordinate pair, or (city, state, country)) does not admit,
\* the caller gets no error and the row that exists is among the rows returned.
C5_ConflictResolvedInternally ==
    [][\A r \in Reqs :
          LET c == req[r].cands[req[r].idx]
              row == WithId(CandData(c), nextLocId)
          IN  ( /\ req[r].pc = "save"
                /\ ~\E l \in locations : l.latitude = c.lat /\ l.longitude = c.lon
                /\ Conflicting(row) # {}
                /\ SearchSave(r) )
              => ( /\ req'[r].status \in {0, 200}
                   /\ \E l \in Conflicting(row) : l.id \in req'[r].ids )]_vars

\* C6: no two Location rows share the (latitude, longitude) pair and no two
\* share the (city, state, country) triple, a triple without state included.
C6_LocationsUnique ==
    \A a, b \in locations :
        a # b => /\ ~(a.latitude = b.latitude /\ a.longitude = b.longitude)
                 /\ ~(a.city = b.city /\ a.state = b.state /\ a.country = b.country)

(***************************************************************************)
(* Claims about the WeatherRecord store (SpecRec).                         *)
(***************************************************************************)

\* C7: every stored WeatherRecord has temp_c in [-100, 100], humidity in
\* [0, 100] when present and wind_speed >= 0 when present.
C7_RecordsWithinBounds ==
    \A w \in records :
        /\ w.temp_c >= Deg(TempMin) /\ w.temp_c <= Deg(TempMax)
        /\ \A h \in w.humidity : h >= 0 /\ h <= HumidityMax
        /\ \A s \in w.wind_speed : s >= 0

\* C8: an update through the weather-history endpoint whose merged record would
\* have a temperature or a humidity out of bounds is answered 400 and leaves
\* the records and the Location table as they were. Merged: the record an
\* update of old with the body p asks for.
C8_InvalidUpdatePersistsNothing ==
    [][LET Merged(old, p) == [f \in DOMAIN old |-> IF f \in DOMAIN p THEN p[f] ELSE old[f]]
       IN  \A id \in RecIds, p \in Payloads :
               ( /\ \E old \in records :
                       /\ old.id = id
                       /\ \/ Merged(old, p).temp_c < Deg(TempMin)
                          \/ Merged(old, p).temp_c > Deg(TempMax)
                          \/ \E h \in Merged(old, p).humidity : h < 0 \/ h > HumidityMax
                 /\ UpdateWeatherRecord(id, p) )
               => ( /\ resp'.status = 400
                    /\ records' = records
                    /\ locations' = locations )]_vars

\* C9: an update that is committed, through either router, changes in the
\* record it names only the fields its body set (every other field, the id
\* included, keeps its value), and changes no other record.
C9_UpdateChangesOnlySuppliedFields ==
    [][\A id \in RecIds, p \in Payloads :
          ( /\ resp'.id = id /\ resp'.fields = DOMAIN p
            /\ resp'.status = 200 \/ records' # records
            /\ UpdateWeatherRecord(id, p) \/ UpdateWeather(id, p) )
          => \E old \in records, new \in records' :
                /\ old.id = id /\ new.id = id
                /\ \A f \in DOMAIN old \ DOMAIN p : new[f] = old[f]
                /\ records' \ {new} = records \ {old} ]_vars

\* An update answered 200 whose body set neither humidity nor wind_speed left
\* both at the values the record had, beside a second record.
C9_Witness ==
    /\ resp.op \in {"update_weather_record", "update_weather"}
    /\ resp.status = 200
    /\ resp.fields \cap OptionalFields = {}
    /\ Cardinality(records) = 2
    /\ \E w \in records : w.id = resp.id /\ w.humidity # {} /\ w.wind_speed # {}

\* C10: a second geocode call for the same location, less than 10 minutes after
\* a successful one, makes no upstream call and returns the same coordinates.
C10_GeocodeServedFromCache ==
    [][\A location \in GeoQueries, u \in GeoUpstream :
          ( /\ last.op = "geocode" /\ last.out.kind = "ok"
            /\ last.key = <<location>>
            /\ now - last.t1 < TTLCurrent
            /\ Geocode(location, u) )
          => (gets' = gets /\ last'.out = last.out)]_vars

\* C11: geocode_location raises ValueError (NotFound) for an empty upstream
\* answer and RuntimeError (UpstreamUnavailable) for an error status or a
\* transport failure, returning no coordinates in either case; GET /weather
\* with a city input answers 400 for the first and 502 for the second.
C11_GeocodeFailuresDistinct ==
    [][ /\ last'.op = "geocode" =>
            \A location \in GeoQueries, u \in GeoUpstream :
                ( /\ last'.key = <<location>>
                  /\ u.kind \in {"status", "transport"} \/ u.items = <<>>
                  /\ Geocode(location, u) ) =>
                    /\ (u.kind = "json" /\ u.items = <<>>) =>
                            last'.out = Outcome("value_error", 0, <<>>)
                    /\ u.kind \in {"status", "transport"} =>
                            last'.out = Outcome("runtime_error", 0, <<>>)
        /\ (last'.op = "weather" /\ detect_input_type(last'.key) = "city") =>
            \A u \in GeoUpstream, uw \in CoordUpstream :
                ( /\ u.kind \in {"status", "transport"} \/ u.items = <<>>
                  /\ Weather(last'.key, u, uw) ) =>
                    /\ (u.kind = "json" /\ u.items = <<>>) =>
                            (resp'.status = 400 /\ last'.out.data = <<>>)
                    /\ u.kind \in {"status", "transport"} =>
                            (resp'.status = 502 /\ last'.out.data = <<>>) ]_vars

C11_Witness ==
    /\ last.op = "weather"
    /\ last.key = <<"S", "e", "o", "u", "l">>
    /\ last.out.kind = "value_error"
    /\ resp.status = 400

\* The forms of the classification, stated on the characters of a string.
AllDigits(t) == t # <<>> /\ \A i \in 1 .. Len(t) : t[i] \in Digits

AllSpaces(t) == \A i \in 1 .. Len(t) : t[i] \in Spaces

\* <number>,<number> with whitespace allowed around the comma. IsUnsigned:
\* digits, optionally followed by a point and digits. IsNumber: optionally
\* signed, optionally fractional.
FormCoordinates(s) ==
    LET IsUnsigned(t) ==
            \/ AllDigits(t)
            \/ \E k \in 2 .. Len(t) - 1 :
                  /\ t[k] = "."
                  /\ AllDigits(SubSeq(t, 1, k - 1))
                  /\ AllDigits(SubSeq(t, k + 1, Len(t)))
        IsNumber(t) == IsUnsigned(t) \/ (t # <<>> /\ t[1] = "-" /\ IsUnsigned(Tail(t)))
    IN
    \E k \in 1 .. Len(s) :
        /\ s[k] = ","
        /\ \E a \in 0 .. k - 1, b \in k + 1 .. Len(s) + 1 :
              /\ IsNumber(SubSeq(s, 1, a))
              /\ AllSpaces(SubSeq(s, a + 1, k - 1))
              /\ AllSpaces(SubSeq(s, k + 1, b - 1))
              /\ IsNumber(SubSeq(s, b, Len(s)))

\* Five digits, optionally followed by a hyphen and four digits.
FormPostal(s) ==
    \/ Len(s) = 5 /\ AllDigits(s)
    \/ /\ Len(s) = 10
       /\ AllDigits(SubSeq(s, 1, 5))
       /\ s[6] = "-"
       /\ AllDigits(SubSeq(s, 7, 10))

FormClass(s) ==
    IF FormCoordinates(s) THEN "latlon"
    ELSE IF FormPostal(s) THEN "zip"
    ELSE "city"

\* The string without the whitespace it begins and ends with.
Trimmed(s) ==
    LET cuts == {c \in (1 .. Len(s) + 1) \X (0 .. Len(s)) :
                    /\ c[1] <= c[2] + 1
                    /\ AllSpaces(SubSeq(s, 1, c[1] - 1))
                    /\ AllSpaces(SubSeq(s, c[2] + 1, Len(s)))
                    /\ c[1] <= c[2] => (s[c[1]] \notin Spaces /\ s[c[2]] \notin Spaces)}
        c == CHOOSE c \in cuts : \A o \in cuts : c[2] - c[1] <= o[2] - o[1]
    IN  SubSeq(s, c[1], c[2])

\* C19 as stated: every input is classified, as Coordinates when the string has
\* the form <number>,<number>, as PostalCode when it is a 5-digit code with an
\* optional -4-digit extension, and as PlaceName otherwise.
C19_ClassifiedByForm ==
    last.op = "detect_input_type" => last.out.data = <<FormClass(last.key)>>

\* C19 as amended: the forms are those of the input without the whitespace it
\* begins and ends with.
C19_ClassifiedByTrimmedForm ==
    last.op = "detect_input_type" =>
        /\ last.out.kind = "ok"
        /\ last.out.data = <<FormClass(Trimmed(last.key))>>

\* A zip code typed after a space has been classified as a zip code.
C19_Witness ==
    /\ last.op = "detect_input_type"
    /\ last.key = <<" ", "0", "4", "0", "4", "4">>
    /\ last.out.data = <<"zip">>

\* C20: when the upstream request of get_weather_by_zip for a well-formed zip
\* code fails at transport level, the call raises RuntimeError with the
\* message "Weather API request failed", not ValueError.
C20_ZipTransportFailureIsRuntimeError ==
    [][\A zip_code \in ZipArgs, u \in ZipUpstream :
          ( /\ last'.op = "get_weather_by_zip"
            /\ last'.key = zip_code
            /\ validate_zip_code(zip_code)
            /\ u.kind = "transport"
            /\ GetWeatherByZip(zip_code, u) )
          => last'.out = Outcome("runtime_error", 0, <<"Weather API request failed">>)]_vars

\* C12: when the upstream answers 404, or with an empty result, a current or
\* forecast request is answered NotFound (404) to the client of the endpoint.
C12_UpstreamNotFoundIs404 ==
    [][\A t \in Tasks, u \in Upstream("current") \cup Upstream("forecast") :
          ( /\ (u.kind = "status" /\ u.status = 404) \/ u.kind = "empty"
            /\ FetchReturn(t, u) )
          => resp'.status = 404]_vars

\* C13: when the upstream call fails at transport level (a timeout included),
\* answers 5xx or returns JSON that lacks required keys, the client is
\* answered UpstreamUnavailable (502 or 504), never NotFound, InvalidInput or
\* a successful record built from placeholder values.
C13_UpstreamFailureIs502 ==
    [][\A t \in Tasks, u \in Upstream("current") \cup Upstream("forecast") :
          ( /\ \/ u.kind = "transport"
               \/ u.kind = "status" /\ u.status >= 500
               \/ u.kind = "json" /\ \E i \in 1 .. Len(u.items) : ~u.items[i].has_temp
            /\ FetchReturn(t, u) )
          => resp'.status \in {502, 504}]_vars

\* C15: a fetch is performed only when exactly one of {place name} and
\* {lat and lon} is supplied; any other request is answered InvalidInput (400)
\* with no upstream call and the cache left as it was.
C15_FetchOnlyWithExactlyOne ==
    [][LET ExactlyOneSupplied(a) ==
              \/ a.city # NoneV /\ a.lat = NoneV /\ a.lon = NoneV
              \/ a.city = NoneV /\ a.lat # NoneV /\ a.lon # NoneV
       IN  \A t \in Tasks, op \in Ops, a \in FetchArgs :
               (~ExactlyOneSupplied(a) /\ FetchStart(t, op, a))
               => ( /\ resp'.status = 400
                    /\ gets' = gets
                    /\ task' = task
                    /\ cache' = cache )]_vars

C16_UnknownIdIsNotFound ==
    [][\A id \in RecIds :
          ( /\ resp'.id = id
            /\ ~\E w \in records : w.id = id
            /\ \/ GetWeatherById(id)
               \/ DeleteWeatherRecord(id)
               \/ DeleteWeather(id)
               \/ \E p \in Payloads : UpdateWeatherRecord(id, p) \/ UpdateWeather(id, p) )
          => (resp'.status = 404 /\ records' = records)]_vars

\* C17: a range query by location returns exactly the stored records of that
\* location whose weather_date d has start <= d <= end (each bound applied
\* when given, both inclusive), each once, none of another location, in the
\* order of weather_date.
C17_RangeQueryExact ==
    [][\A location_id \in LocIds, start_date \in DateBounds, end_date \in DateBounds :
          ( /\ last'.key = <<location_id, start_date, end_date>>
            /\ \/ GetWeatherByLocation(location_id, start_date, end_date)
               \/ GetForecast(location_id, start_date, end_date) )
          => LET rows == last'.out.data
                 Range(l) == {l[i] : i \in 1 .. Len(l)}
             IN  /\ Range(rows) =
                        {w \in records :
                            /\ w.location_id = location_id
                            /\ \A s \in start_date : s <= w.weather_date
                            /\ \A x \in end_date : w.weather_date <= x}
                 /\ Len(rows) = Cardinality(Range(rows))
                 /\ \/ \A i \in 1 .. Len(rows) - 1 :
                          rows[i].weather_date >= rows[i + 1].weather_date
                    \/ \A i \in 1 .. Len(rows) - 1 :
                          rows[i].weather_date <= rows[i + 1].weather_date]_vars

\* A query of Location 1 up to day 5 returned the record of day 5 alone, while
\* the store held a later record of Location 1 and a record of Location 2.
C17_Witness ==
    /\ last.op \in {"get_weather_by_location", "get_forecast"}
    /\ last.key = <<1, {}, {5}>>
    /\ Len(last.out.data) = 1
    /\ last.out.data[1].weather_date = 5
    /\ \E w \in records : w.location_id = 1 /\ w.weather_date > 5
    /\ \E w \in records : w.location_id = 2

\* C21: a cache entry is written only after a successful upstream fetch. When
\* the upstream call of a fetcher fails or yields an empty payload, the cache
\* is exactly what it was before the call, an expired entry under the same key
\* included; and every step that changes the cache is the return of a call
\* that went upstream and ended with a result.
C21_CacheUnchangedOnFailure ==
    [][/\ \A t \in Tasks, u \in Upstream("current") \cup Upstream("forecast") :
             (u.kind \in {"status", "transport", "empty"} /\ FetchReturn(t, u))
             => (cache' = cache /\ last'.out.kind \in {"http", "none"})
       /\ cache' # cache => (last'.gets = 1 /\ last'.out.kind = "ok")]_vars

\* A call found an expired entry, went upstream and failed: the entry is still
\* stored with the timestamp it had.
C21_Witness ==
    /\ last.op \in Ops /\ last.gets = 1
    /\ last.out.kind \in {"http", "none"}
    /\ last.seen_age >= TTL(last.op)
    /\ last.key \in DOMAIN cache
    /\ cache[last.key].timestamp = last.t1 - last.seen_age

\* Task t is in flight while another call for its key is in flight too, or
\* after another call has stored an entry its own lookup did not find.
Overlapped(t) ==
    /\ task[t].pc = "awaiting"
    /\ \/ \E t2 \in Tasks \ {t} :
             task[t2].pc = "awaiting" /\ task[t2].key = task[t].key
       \/ task[t].seen_age = -1 /\ task[t].key \in DOMAIN cache

\* C22: under any interleaving of concurrent fetcher calls for the same cache
\* key, a call whose upstream GET is answered completes with the result built
\* from that answer, whatever the other call has done meanwhile; its put
\* leaves exactly one entry under the key, the one it wrote (the put made last
\* wins), the entries of other keys and the other call are left as they were.
C22_LastWriteWins ==
    [][\A t \in Tasks, u \in Upstream("current") \cup Upstream("forecast") :
          (u.kind = "json" /\ Overlapped(t) /\ FetchReturn(t, u))
          => ( /\ last'.key = task[t].key
               /\ last'.out = Outcome("ok", 0, BuildResult(u))
               /\ DOMAIN cache' = DOMAIN cache \cup {task[t].key}
               /\ cache'[task[t].key] = [timestamp |-> now, data |-> BuildResult(u)]
               /\ \A k \in DOMAIN cache \ {task[t].key} : cache'[k] = cache[k]
               /\ \A t2 \in Tasks \ {t} : task'[t2] = task[t2] )]_vars

\* Two calls for one key both missed and went upstream: one has returned and
\* put its result while the other, whose lookup found no entry, is in flight.
C22_Witness ==
    /\ calls = 2 /\ gets = 2
    /\ last.gets = 1 /\ last.out.kind = "ok"
    /\ \E t \in Tasks :
          /\ Overlapped(t)
          /\ task[t].seen_age = -1
          /\ task[t].key = last.key
          /\ cache[last.key] = [timestamp |-> last.t1, data |-> last.out.data]

(***************************************************************************)
(* Claims about the fetchers and the geocoder together (SpecUpstream).     *)
(***************************************************************************)

C24_KeyIndependentOfOrder ==
    last.op = "_build_cache_key" =>
        LET prefix == last.key[1][1]
            items == Tail(last.key)
            key == last.out.data
        IN  /\ \A p \in InsertionOrders(items) : _build_cache_key(prefix, p) = key
            /\ \A other \in Ops \ {prefix}, kw \in KeyKwargs :
                  _build_cache_key(other, kw) # key

\* The key was built from lat/lon parameters that were given in another order
\* than the one they have in the key.
C24_Witness ==
    /\ last.op = "_build_cache_key"
    /\ Len(last.key) = 5
    /\ last.out.data # last.key
    /\ last.key[2][1] = "units" /\ last.key[3][1] = "lon"
    /\ last.out.data[2][1] = "appid" /\ last.out.data[3][1] = "lat"

(***************************************************************************)
(* More claims about the fetchers (SpecCache).                             *)
(***************************************************************************)

\* C27: for every upstream payload, with or without a temperature field, the
\* record fetch_current_weather returns and every item fetch_forecast returns
\* carry temp_c and temp_f with temp_f = temp_c * 9/5 + 32.
C27_BothUnitsConsistent ==
    (last.op \in Ops /\ last.out.kind = "ok") =>
        \A i \in 1 .. Len(last.out.data) :
            5 * last.out.data[i].temp_f = 9 * last.out.data[i].temp_c + 160

\* C25: a WeatherRecord is created only if its weather_date lies within
\* [now - 365 days, now + 7 days] at creation time: a create request whose
\* weather_date is earlier or later than that is rejected and stores nothing.
C25_CreateDateWithinWindow ==
    [][\A p \in Payloads :
          ( /\ p.weather_date < -PastDays \/ p.weather_date > ForecastDays
            /\ CreateWeatherRecord(p) )
          => (resp'.status = 400 /\ records' = records)]_vars

\* C26: once a Location has been created, no operation changes its city,
\* state, country or coordinates: a row kept by a step has after the step the
\* values it had before it.
C26_LocationFieldsImmutable ==
    [][\A l \in locations, m \in locations' :
          m.id = l.id =>
             /\ m.city = l.city /\ m.state = l.state /\ m.country = l.country
             /\ m.latitude = l.latitude /\ m.longitude = l.longitude]_vars

\* C29: the read-only queries of the record store (get by id, forecast by
\* location) leave the persistent state unchanged: the Location rows and the
\* WeatherRecord rows after the query are those before it, whether or not the
\* id queried exists.
C29_QueriesLeaveStoreUnchanged ==
    [][\A location_id \in LocIds, weather_id \in RecIds :
          ( /\ resp'.op \in {"forecast", "get_weather_by_id"}
            /\ GetWeatherForecast(location_id) \/ GetWeatherById(weather_id) )
          => (locations' = locations /\ records' = records)]_vars

(***************************************************************************)
(* Claims about concurrent deletes (SpecRace).                             *)
(***************************************************************************)

\* C28: under any interleaving of delete_location with requests that create a
\* record or move one to the Location, no step removes a Location that a
\* committed WeatherRecord references, no step removes a record as a side
\* effect of a Location delete, and no record is left naming a missing Location.
C28_LocationKeptWhileReferenced ==
    [][/\ \A l \in locations :
             (\E w \in records : w.location_id = l.id)
             => \E m \in locations' : m.id = l.id
       /\ locations' # locations => records' = records
       /\ \A w \in records' : \E l \in locations' : l.id = w.location_id]_vars

\* C30: when two delete requests for the same existing WeatherRecord id run
\* concurrently (each started while the other was in flight, both answered),
\* exactly one reports success and the other NotFound (404), neither reports a
\* server error (500), and the record is absent afterwards.
C30_ConcurrentDeleteOneWins ==
    ( /\ \A r \in Reqs :
            /\ req[r].op = "delete_weather_record"
            /\ req[r].pc = "done"
            /\ req[r].conc
      /\ \A r1, r2 \in Reqs : req[r1].ids = req[r2].ids ) =>
        /\ \E r1, r2 \in Reqs : req[r1].status = 200 /\ req[r2].status = 404
        /\ \A r \in Reqs : req[r].status # 500
        /\ \A r \in Reqs : ~\E w \in records : w.id \in req[r].ids
====
